---- MODULE Spec2Model ----
(***************************************************************************)
(* Model of kpm-project-11-no-rem.cc: main() as a sequential state         *)
(* machine.  The scenario parameters of lines 72-104 are drawn from        *)
(* bounded sets; the flow monitor's result is an input of the run.         *)
(*                                                                         *)
(* Units: frequencies in 100 MHz (28e9 Hz = 280), bandwidths in MHz,       *)
(* times in ms, delay and jitter sums in ns (the resolution of ns3::Time). *)
(* Doubles are modelled as exact rationals [k, n, d] (k = "num") plus the  *)
(* IEEE results of a division by zero (k = "nan", k = "inf").              *)
(***************************************************************************)
EXTENDS Integers, Sequences, FiniteSets, TLC

(* ------------------------------ bounds -------------------------------- *)
MaxGnb == 5
MaxUePerGnb == 3
MaxQuota == 4
MaxFlows == 2
MaxPackets == 1

(* ------------------- the values of lines 72-104 ----------------------- *)
DefaultNumGnb == 3
DefaultNumUePerGnb == 2
DefaultTotalUesCall == 2
DefaultTotalUesBrowse == 3
DefaultCentralFrequencyBand1 == 280
DefaultCentralFrequencyBand2 == 282
DefaultBandwidthBand == 50
DefaultTotalTxPower == 35
numerologyBwp1 == 4
numerologyBwp2 == 2
simTime == 100
udpAppStartTime == 10
bwpIdForBrowsing == 0
bwpIdForCall == 1
\* line 789: the slots per gNB of the second regression baseline
BaselineNumUePerGnb == 9

\* 1 GHz (below the range), the two default carriers, 101 GHz (above it)
FreqSet == {10, DefaultCentralFrequencyBand1, DefaultCentralFrequencyBand2, 1010}
BandwidthSet == {DefaultBandwidthBand, 100}
TxPowerSet == {20, DefaultTotalTxPower}
\* receiver-side counters of a flow: one 25-byte packet's worth (line 82),
\* the counters that give the first regression baseline (lines 774-775) and
\* those that give the second (lines 791-792)
RxSamples ==
    {[rxBytes |-> 25, delaySum |-> 2000000, jitterSum |-> 500000],
     [rxBytes |-> 632909, delaySum |-> 553292, jitterSum |-> 250000],
     [rxBytes |-> 538409, delaySum |-> 10504189, jitterSum |-> 1000000]}

VARIABLES
    \* scenario parameters (lines 72-104) and the process's argc
    numGnb, numUePerGnb, totalUesCall, totalUesBrowse,
    centralFrequencyBand1, centralFrequencyBand2,
    bandwidthBand1, bandwidthBand2, totalTxPower, argc,
    \* what monitor->GetFlowStats() returns after the run
    monitorFlowStats,
    \* position in main(): the next statement group to execute
    pc,
    \* gridScenario.GetUserTerminals(), the two class pools, loop indices
    userTerminals, uePhoneCallContainer, ueBrowsingWebContainer, i, j,
    \* spectrum and power
    x, totalBandwidth, allBwps,
    \* bearer -> BWP routing of the gNB and UE BWP managers
    gnbBwpManager, ueBwpManager,
    \* installed devices and the per-gNB, per-BWP PHY attributes
    gnbNetDev, ueBrowsingWebNetDev, uePhoneCallNetDev, gnbPhy,
    \* attachment
    callIndex, browseIndex, attached, warnLog,
    \* traffic
    clientApps, bearers,
    \* run and analysis
    simulated, stats, outFileOpen, outFile,
    averageFlowThroughput, averageFlowDelay,
    meanFlowThroughput, meanFlowDelay, exitStatus,
    \* the source lines at which a division by a zero divisor was evaluated
    zeroDivisions

cfgVars == <<numGnb, numUePerGnb, totalUesCall, totalUesBrowse,
             centralFrequencyBand1, centralFrequencyBand2,
             bandwidthBand1, bandwidthBand2, totalTxPower, argc,
             monitorFlowStats>>
poolVars == <<userTerminals, uePhoneCallContainer, ueBrowsingWebContainer>>
radioVars == <<x, totalBandwidth, allBwps, gnbBwpManager, ueBwpManager>>
devVars == <<gnbNetDev, ueBrowsingWebNetDev, uePhoneCallNetDev>>
attachVars == <<callIndex, browseIndex, attached, warnLog>>
trafficVars == <<clientApps, bearers>>
analysisVars == <<simulated, stats, outFileOpen, outFile,
                  averageFlowThroughput, averageFlowDelay,
                  meanFlowThroughput, meanFlowDelay, exitStatus, zeroDivisions>>
vars == <<cfgVars, pc, poolVars, i, j, radioVars, devVars, gnbPhy,
          attachVars, trafficVars, analysisVars>>

(* --------------------------- doubles ---------------------------------- *)
RECURSIVE GCD(_, _)
GCD(a, b) == IF b = 0 THEN a ELSE GCD(b, a % b)

Abs(a) == IF a < 0 THEN -a ELSE a

\* the rational n/d (d # 0) in lowest terms with a positive denominator
Rat(n, d) ==
    LET g == GCD(Abs(n), Abs(d))
        s == IF d < 0 THEN -1 ELSE 1
    IN  [k |-> "num", n |-> s * (n \div g), d |-> s * (d \div g)]

\* (n1/d1) * (n2/d2), the common factors cancelled before multiplying
RatMul(n1, d1, n2, d2) ==
    LET g1 == GCD(Abs(n1), Abs(d2))
        g2 == GCD(Abs(n2), Abs(d1))
        h1 == IF g1 = 0 THEN 1 ELSE g1
        h2 == IF g2 = 0 THEN 1 ELSE g2
    IN  Rat((n1 \div h1) * (n2 \div h2), (d1 \div h2) * (d2 \div h1))

NaN == [k |-> "nan", n |-> 0, d |-> 1]
Inf == [k |-> "inf", n |-> 0, d |-> 1]
Zero == Rat(0, 1)

\* a / b on doubles: x/0 is +-inf, 0/0 is NaN, NaN and inf propagate
FDiv(a, b) ==
    IF a.k = "nan" \/ b.k = "nan" THEN NaN
    ELSE IF a.k = "inf" THEN (IF b.k = "inf" THEN NaN ELSE Inf)
    ELSE IF b.k = "inf" THEN Zero
    ELSE IF b.n = 0 THEN (IF a.n = 0 THEN NaN ELSE Inf)
    ELSE RatMul(a.n, a.d, b.d, b.n)

FMul(a, b) ==
    IF a.k = "nan" \/ b.k = "nan" THEN NaN
    ELSE IF a.k = "inf" \/ b.k = "inf" THEN
        (IF (a.k = "num" /\ a.n = 0) \/ (b.k = "num" /\ b.n = 0) THEN NaN ELSE Inf)
    ELSE RatMul(a.n, a.d, b.n, b.d)

FAdd(a, b) ==
    IF a.k = "nan" \/ b.k = "nan" THEN NaN
    ELSE IF a.k = "inf" \/ b.k = "inf" THEN Inf
    ELSE LET g == GCD(a.d, b.d) IN
         Rat(a.n * (b.d \div g) + b.n * (a.d \div g), a.d * (b.d \div g))

(* Naturals beyond 32 bits, for the tolerance comparisons of lines 772-805: *)
(* a sequence of base-10000 digits, least significant first, no leading 0. *)
RECURSIVE Big(_)
Big(n) == IF n = 0 THEN <<>> ELSE <<n % 10000>> \o Big(n \div 10000)

RECURSIVE BigAddC(_, _, _)
BigAddC(a, b, c) ==
    IF a = <<>> /\ b = <<>> THEN Big(c)
    ELSE LET da == IF a = <<>> THEN 0 ELSE Head(a)
             db == IF b = <<>> THEN 0 ELSE Head(b)
             ta == IF a = <<>> THEN <<>> ELSE Tail(a)
             tb == IF b = <<>> THEN <<>> ELSE Tail(b)
             sum == da + db + c
         IN  <<sum % 10000>> \o BigAddC(ta, tb, sum \div 10000)

RECURSIVE BigMulDigit(_, _, _)
BigMulDigit(a, m, c) ==
    IF m = 0 THEN <<>>
    ELSE IF a = <<>> THEN Big(c)
    ELSE LET p == Head(a) * m + c
         IN  <<p % 10000>> \o BigMulDigit(Tail(a), m, p \div 10000)

RECURSIVE BigMul(_, _)
BigMul(a, b) ==
    IF a = <<>> \/ b = <<>> THEN <<>>
    ELSE LET rest == BigMul(a, Tail(b))
             shifted == IF rest = <<>> THEN <<>> ELSE <<0>> \o rest
         IN  BigAddC(BigMulDigit(a, Head(b), 0), shifted, 0)

RECURSIVE BigLeqFrom(_, _, _)
BigLeqFrom(a, b, m) ==
    IF m = 0 THEN TRUE
    ELSE IF a[m] # b[m] THEN a[m] < b[m]
    ELSE BigLeqFrom(a, b, m - 1)

BigLeq(a, b) ==
    IF Len(a) # Len(b) THEN Len(a) < Len(b) ELSE BigLeqFrom(a, b, Len(a))

(* --------------------------- helpers ---------------------------------- *)
Range(s) == {s[n] : n \in 1..Len(s)}

\* the sequence <<0, 1, ..., n-1>>
Iota(n) == [m \in 1..n |-> m - 1]

Voice == "GBR_CONV_VOICE"
Browsing == "NGBR_LOW_LAT_EMBB"
Bearers == {Voice, Browsing}

NoRoute == [b \in Bearers |-> -1]

(* ------------------------ flow monitor results ------------------------ *)
\* One FlowStats record.  A flow monitor counts a packet as received only
\* after it was sent, and bytes, delay and jitter only for received packets.
FlowRecords ==
    {[txPackets |-> t, rxPackets |-> 0, rxBytes |-> 0, delaySum |-> 0, jitterSum |-> 0] :
        t \in 0..MaxPackets}
    \cup
    {[txPackets |-> t, rxPackets |-> r, rxBytes |-> m.rxBytes,
      delaySum |-> m.delaySum, jitterSum |-> m.jitterSum] :
        t \in 1..MaxPackets, r \in 1..MaxPackets, m \in RxSamples}

ValidFlowRecords == {f \in FlowRecords : f.rxPackets <= f.txPackets}

FlowStatsSet == UNION {[1..n -> ValidFlowRecords] : n \in 0..MaxFlows}

DefaultFlowStats ==
    <<[txPackets |-> 1, rxPackets |-> 1, rxBytes |-> 25, delaySum |-> 2000000,
       jitterSum |-> 500000]>>

(* ------------------------------ Init ---------------------------------- *)
\* the state of main() before line 123, common to every scenario
InitProgram ==
    /\ pc = "params"
    /\ userTerminals = <<>>
    /\ uePhoneCallContainer = <<>>
    /\ ueBrowsingWebContainer = <<>>
    /\ i = 0
    /\ j = 0
    /\ x = 0
    /\ totalBandwidth = 0
    /\ allBwps = <<>>
    /\ gnbBwpManager = NoRoute
    /\ ueBwpManager = NoRoute
    /\ gnbNetDev = <<>>
    /\ ueBrowsingWebNetDev = <<>>
    /\ uePhoneCallNetDev = <<>>
    /\ gnbPhy = <<>>
    /\ callIndex = 0
    /\ browseIndex = 0
    /\ attached = <<>>
    /\ warnLog = <<>>
    /\ clientApps = <<>>
    /\ bearers = <<>>
    /\ simulated = FALSE
    /\ stats = <<>>
    /\ outFileOpen = FALSE
    /\ outFile = <<>>
    /\ averageFlowThroughput = Zero
    /\ averageFlowDelay = Zero
    /\ meanFlowThroughput = Zero
    /\ meanFlowDelay = Zero
    /\ exitStatus = -1
    /\ zeroDivisions = {}

DefaultRadio ==
    /\ centralFrequencyBand1 = DefaultCentralFrequencyBand1
    /\ centralFrequencyBand2 = DefaultCentralFrequencyBand2
    /\ bandwidthBand1 = DefaultBandwidthBand
    /\ bandwidthBand2 = DefaultBandwidthBand
    /\ totalTxPower = DefaultTotalTxPower

DefaultQuotas ==
    /\ totalUesCall = DefaultTotalUesCall
    /\ totalUesBrowse = DefaultTotalUesBrowse

DefaultRun ==
    /\ argc = 1
    /\ monitorFlowStats = DefaultFlowStats

\* topology and quotas vary, the rest as in the source
InitTopology ==
    /\ numGnb \in 1..MaxGnb
    /\ numUePerGnb \in 1..MaxUePerGnb
    /\ totalUesCall \in 0..MaxQuota
    /\ totalUesBrowse \in 0..MaxQuota
    /\ DefaultRadio
    /\ DefaultRun

\* carriers, bandwidths, power budget and topology vary, quotas as in the source
InitRadio ==
    /\ numGnb \in 1..MaxGnb
    /\ numUePerGnb \in 1..MaxUePerGnb
    /\ centralFrequencyBand1 \in FreqSet
    /\ centralFrequencyBand2 \in FreqSet
    /\ bandwidthBand1 \in BandwidthSet
    /\ bandwidthBand2 \in BandwidthSet
    /\ totalTxPower \in TxPowerSet
    /\ DefaultQuotas
    /\ DefaultRun

\* the flow monitor's result and argc vary, the scenario as in the source
\* (and with the slots per gNB of the second regression baseline)
InitFlows ==
    /\ numGnb = DefaultNumGnb
    /\ numUePerGnb \in {DefaultNumUePerGnb, BaselineNumUePerGnb}
    /\ DefaultQuotas
    /\ DefaultRadio
    /\ argc \in 0..2
    /\ monitorFlowStats \in FlowStatsSet

Init ==
    /\ InitProgram
    /\ (InitTopology \/ InitRadio \/ InitFlows)

(* ------------------- lines 123-126: parameter checks ------------------ *)
numTotalUe == numGnb * numUePerGnb

\* NS_ABORT_IF(centralFrequencyBand < 2e9 && centralFrequencyBand > 100e9)
FrequencyAbort(f) == f < 20 /\ f > 1000

\* the total-count precondition one endpoint stricter
ParamsAbortBelowSix ==
    \/ centralFrequencyBand1 = centralFrequencyBand2
    \/ FrequencyAbort(centralFrequencyBand1)
    \/ FrequencyAbort(centralFrequencyBand2)
    \/ (numTotalUe < 6 \/ numGnb < 2)

ParamsAbort ==
    \/ centralFrequencyBand1 = centralFrequencyBand2
    \/ FrequencyAbort(centralFrequencyBand1)
    \/ FrequencyAbort(centralFrequencyBand2)
    \/ (numTotalUe < 5 \/ numGnb < 2)

CheckParams ==
    /\ pc = "params"
    /\ pc' = IF ParamsAbort THEN "abortedParams" ELSE "scenario"
    /\ UNCHANGED <<cfgVars, poolVars, i, j, radioVars, devVars, gnbPhy,
                   attachVars, trafficVars, analysisVars>>

(* ------------------- lines 150-165: CreateScenario -------------------- *)
CreateScenario ==
    /\ pc = "scenario"
    /\ userTerminals' = Iota(numUePerGnb * numGnb)
    /\ j' = 0
    /\ pc' = "distribute"
    /\ UNCHANGED <<cfgVars, uePhoneCallContainer, ueBrowsingWebContainer, i,
                   radioVars, devVars, gnbPhy, attachVars, trafficVars,
                   analysisVars>>

(* ------------------- lines 177-202: class partition ------------------- *)
\* the parity test inverted: odd indices to the voice container
GoesToVoiceInverted(idx) == idx % 2 = 1

\* j % 2 == 0 : the UE at index j goes to the voice container
GoesToVoice(idx) == idx % 2 = 0

DistributeUe ==
    /\ pc = "distribute"
    /\ IF j < Len(userTerminals)
       THEN LET ue == userTerminals[j + 1] IN
            /\ IF GoesToVoice(j)
               THEN /\ uePhoneCallContainer' = Append(uePhoneCallContainer, ue)
                    /\ UNCHANGED ueBrowsingWebContainer
               ELSE /\ ueBrowsingWebContainer' = Append(ueBrowsingWebContainer, ue)
                    /\ UNCHANGED uePhoneCallContainer
            /\ j' = j + 1
            /\ pc' = pc
       ELSE /\ pc' = "poolcheck"
            /\ UNCHANGED <<uePhoneCallContainer, ueBrowsingWebContainer, j>>
    /\ UNCHANGED <<cfgVars, userTerminals, i, radioVars, devVars, gnbPhy,
                   attachVars, trafficVars, analysisVars>>

(* ------------------- lines 204-206: pool-size checks ------------------ *)
\* the browsing threshold off by one
PoolsAbortOffByOne ==
    \/ Len(uePhoneCallContainer) < 2
    \/ Len(ueBrowsingWebContainer) < 2

PoolsAbort ==
    \/ Len(uePhoneCallContainer) < 2
    \/ Len(ueBrowsingWebContainer) < 3

CheckPools ==
    /\ pc = "poolcheck"
    /\ pc' = IF PoolsAbort THEN "abortedPools" ELSE "bands"
    /\ UNCHANGED <<cfgVars, poolVars, i, j, radioVars, devVars, gnbPhy,
                   attachVars, trafficVars, analysisVars>>

(* ------------------- lines 241-284: spectrum division ----------------- *)
\* pow(10, p / 10), kept as the factor coef * 10^(e10/10)
Pow10Tenths(p) == [coef |-> Rat(1, 1), e10 |-> p]

\* r * v for a rational r and a linear power v
Scale(r, v) == [coef |-> FMul(r, v.coef), e10 |-> v.e10]

\* 10 * log10(v): a dBm value, kept as the linear power v it is the
\* logarithm of (log10 is injective, so two dBm values are equal exactly
\* when their linear powers are)
Log10x10(v) == [k |-> "set", coef |-> v.coef, e10 |-> v.e10]

\* the TxPower attribute of a PHY this program never set
DefaultTxPower == [k |-> "default", coef |-> Zero, e10 |-> 0]
DefaultPhy == [Numerology |-> -1, TxPower |-> DefaultTxPower]

InitializeBands ==
    /\ pc = "bands"
    /\ x' = Pow10Tenths(totalTxPower)
    /\ totalBandwidth' = bandwidthBand1 + bandwidthBand2
    /\ allBwps' = <<[centralFrequency |-> centralFrequencyBand1,
                     bandwidth |-> bandwidthBand1],
                    [centralFrequency |-> centralFrequencyBand2,
                     bandwidth |-> bandwidthBand2]>>
    /\ pc' = "routing"
    /\ UNCHANGED <<cfgVars, poolVars, i, j, gnbBwpManager, ueBwpManager,
                   devVars, gnbPhy, attachVars, trafficVars, analysisVars>>

(* ------------------- lines 329-359: bearer -> BWP routing ------------- *)
SetBwpManagerAlgorithmAttribute(m, bearer, bwpId) == [m EXCEPT ![bearer] = bwpId]

\* the per-UE loops of lines 344-359 set the same attribute once per UE
RECURSIVE Reapply(_, _, _, _)
Reapply(m, bearer, bwpId, n) ==
    IF n = 0 THEN m
    ELSE Reapply(SetBwpManagerAlgorithmAttribute(m, bearer, bwpId), bearer, bwpId, n - 1)

ConfigureBwpRouting ==
    /\ pc = "routing"
    /\ gnbBwpManager' =
         SetBwpManagerAlgorithmAttribute(
             SetBwpManagerAlgorithmAttribute(gnbBwpManager, Browsing, bwpIdForBrowsing),
             Voice, bwpIdForCall)
    /\ ueBwpManager' =
         LET m0 == SetBwpManagerAlgorithmAttribute(
                       SetBwpManagerAlgorithmAttribute(ueBwpManager, Browsing,
                                                       bwpIdForBrowsing),
                       Voice, bwpIdForCall)
             m1 == Reapply(m0, Voice, bwpIdForCall, Len(uePhoneCallContainer))
         IN  Reapply(m1, Browsing, bwpIdForBrowsing, Len(ueBrowsingWebContainer))
    /\ pc' = "install"
    /\ UNCHANGED <<cfgVars, poolVars, i, j, x, totalBandwidth, allBwps,
                   devVars, gnbPhy, attachVars, trafficVars, analysisVars>>

(* ------------------- lines 372-379: device installation --------------- *)
\* one device per node, in container order; a device is named by its node
InstallDevices ==
    /\ pc = "install"
    /\ gnbNetDev' = Iota(numGnb)
    /\ ueBrowsingWebNetDev' = ueBrowsingWebContainer
    /\ uePhoneCallNetDev' = uePhoneCallContainer
    /\ gnbPhy' = [g \in 0..(numGnb - 1) |-> [b \in 0..(Len(allBwps) - 1) |-> DefaultPhy]]
    /\ i' = 0
    /\ pc' = "txpower"
    /\ UNCHANGED <<cfgVars, poolVars, j, radioVars, attachVars, trafficVars,
                   analysisVars>>

(* ------------------- lines 386-404: numerology and TxPower ------------ *)
\* line 391: the value written to both bandwidth parts
TxPowerValue == Log10x10(Scale(FDiv(Rat(bandwidthBand1, 1), Rat(totalBandwidth, 1)), x))

\* lines 396 and 402: the gNB whose PHY of bandwidth part b gets TxPower
\* in iteration idx
TxPowerTarget(idx, b) == IF b = 0 THEN 0 ELSE idx

SetPhy(phy, g, b, attr, v) == [phy EXCEPT ![g][b][attr] = v]

ConfigureGnbPhy ==
    /\ pc = "txpower"
    /\ IF i < Len(gnbNetDev)
       THEN LET txPower == TxPowerValue
                p1 == SetPhy(gnbPhy, gnbNetDev[i + 1], 0, "Numerology", numerologyBwp1)
                p2 == SetPhy(p1, gnbNetDev[TxPowerTarget(i, 0) + 1], 0, "TxPower", txPower)
                p3 == SetPhy(p2, gnbNetDev[i + 1], 1, "Numerology", numerologyBwp2)
                p4 == SetPhy(p3, gnbNetDev[TxPowerTarget(i, 1) + 1], 1, "TxPower", txPower)
            IN  /\ gnbPhy' = p4
                /\ i' = i + 1
                /\ pc' = pc
       ELSE /\ pc' = "internet"
            /\ UNCHANGED <<gnbPhy, i>>
    /\ UNCHANGED <<cfgVars, poolVars, j, radioVars, devVars, attachVars,
                   trafficVars, analysisVars>>

(* ------------------- lines 406-486: core network, addresses ----------- *)
\* UpdateDeviceConfigs, remote host, IPv4 addresses (one per UE device, in
\* device order: an address is named by its UE), default routes; then the
\* attachment loop's counters
SetupInternet ==
    /\ pc = "internet"
    /\ callIndex' = 0
    /\ browseIndex' = 0
    /\ i' = 0
    /\ j' = 0
    /\ pc' = "attach"
    /\ UNCHANGED <<cfgVars, poolVars, radioVars, devVars, gnbPhy, attached,
                   warnLog, trafficVars, analysisVars>>

(* ------------------- lines 488-521: manual attachment ----------------- *)
Crash == -1

\* every UE device of the scenario
AllUeDevices == Range(ueBrowsingWebNetDev) \cup Range(uePhoneCallNetDev)

\* NetDeviceContainer::Get(idx) is an unchecked vector read.  Inside the
\* container it returns the device; past its end the behaviour is undefined:
\* the process crashes, or the read yields whatever pointer the memory
\* holds, which may point to any live UE device.
Get(container, idx) ==
    IF idx < Len(container) THEN {container[idx + 1]}
    ELSE {Crash} \cup AllUeDevices

\* j % 2 == 0 : the slot expects a voice UE
SlotIsVoice(slot) == slot % 2 = 0

\* the guards of lines 498 and 507
CallQuotaLeft == callIndex < totalUesCall
BrowseQuotaLeft == browseIndex < totalUesBrowse

\* the loop counters after slot (i, j)
NextSlot ==
    IF j + 1 < numUePerGnb THEN <<i, j + 1>> ELSE <<i + 1, 0>>

AttachSlot ==
    /\ pc = "attach"
    /\ IF i < Len(gnbNetDev)
       THEN LET bs == gnbNetDev[i + 1]
                voice == SlotIsVoice(j)
                quotaLeft == IF voice THEN CallQuotaLeft ELSE BrowseQuotaLeft
                pool == IF voice THEN uePhoneCallNetDev ELSE ueBrowsingWebNetDev
                index == IF voice THEN callIndex ELSE browseIndex
            IN  \E ueDev \in Get(pool, index) :
                  IF ueDev = Crash
                  THEN /\ pc' = "crashed"
                       /\ UNCHANGED <<i, j, attachVars>>
                  ELSE /\ IF quotaLeft
                          THEN \* lines 499/508 and 518: Get(index++), AttachToGnb
                               /\ callIndex' = IF voice THEN callIndex + 1 ELSE callIndex
                               /\ browseIndex' = IF voice THEN browseIndex
                                                 ELSE browseIndex + 1
                               /\ attached' = Append(attached, [ue |-> ueDev, bs |-> bs])
                               /\ UNCHANGED warnLog
                          ELSE \* lines 502/511: the warning reads Get(index); continue
                               /\ warnLog' = Append(warnLog,
                                     [bs |-> bs, slot |-> j,
                                      class |-> IF voice THEN Voice ELSE Browsing])
                               /\ UNCHANGED <<callIndex, browseIndex, attached>>
                       /\ i' = NextSlot[1]
                       /\ j' = NextSlot[2]
                       /\ pc' = pc
       ELSE /\ pc' = "finalcheck"
            /\ UNCHANGED <<i, j, attachVars>>
    /\ UNCHANGED <<cfgVars, poolVars, radioVars, devVars, gnbPhy, trafficVars,
                   analysisVars>>

(* ------------------- lines 523-593: final check, servers -------------- *)
FinalCheck ==
    /\ pc = "finalcheck"
    /\ warnLog' =
         LET w1 == IF callIndex < totalUesCall
                   THEN Append(warnLog, [bs |-> -1, slot |-> -1, class |-> Voice])
                   ELSE warnLog
         IN  IF browseIndex < totalUesBrowse
             THEN Append(w1, [bs |-> -1, slot |-> -1, class |-> Browsing])
             ELSE w1
    /\ i' = 0
    /\ pc' = "browsingClients"
    /\ UNCHANGED <<cfgVars, poolVars, j, radioVars, devVars, gnbPhy,
                   callIndex, browseIndex, attached, trafficVars, analysisVars>>

(* ------------------- lines 599-619: web browsing clients -------------- *)
InstallBrowsingClient ==
    /\ pc = "browsingClients"
    /\ IF i < Len(ueBrowsingWebContainer)
       THEN /\ clientApps' = Append(clientApps,
                                    [remoteAddress |-> ueBrowsingWebNetDev[i + 1],
                                     class |-> Browsing])
            /\ bearers' = Append(bearers, [ue |-> ueBrowsingWebNetDev[i + 1],
                                           bearer |-> Browsing])
            /\ i' = i + 1
            /\ pc' = pc
       ELSE /\ i' = 0
            /\ pc' = "voiceClients"
            /\ UNCHANGED trafficVars
    /\ UNCHANGED <<cfgVars, poolVars, j, radioVars, devVars, gnbPhy,
                   attachVars, analysisVars>>

(* ------------------- lines 625-645: voice call clients ---------------- *)
InstallVoiceClient ==
    /\ pc = "voiceClients"
    /\ IF i < Len(uePhoneCallContainer)
       THEN /\ clientApps' = Append(clientApps,
                                    [remoteAddress |-> uePhoneCallNetDev[i + 1],
                                     class |-> Voice])
            /\ bearers' = Append(bearers, [ue |-> uePhoneCallNetDev[i + 1],
                                           bearer |-> Voice])
            /\ i' = i + 1
            /\ pc' = pc
       ELSE /\ i' = 0
            /\ pc' = "run"
            /\ UNCHANGED trafficVars
    /\ UNCHANGED <<cfgVars, poolVars, j, radioVars, devVars, gnbPhy,
                   attachVars, analysisVars>>

(* ------------------- lines 651-675: the simulation run ---------------- *)
SimulatorRun ==
    /\ pc = "run"
    /\ simulated' = TRUE
    /\ pc' = "report"
    /\ UNCHANGED <<cfgVars, poolVars, i, j, radioVars, devVars, gnbPhy,
                   attachVars, trafficVars, stats, outFileOpen, outFile,
                   averageFlowThroughput, averageFlowDelay,
                   meanFlowThroughput, meanFlowDelay, exitStatus, zeroDivisions>>

(* ------------------- lines 684-704: flow stats, report file ----------- *)
\* outFile.open may fail; then main returns 1
OpenOutFile ==
    /\ pc = "report"
    /\ stats' = monitorFlowStats
    /\ averageFlowThroughput' = Zero
    /\ averageFlowDelay' = Zero
    /\ \E isOpen \in BOOLEAN :
         /\ outFileOpen' = isOpen
         /\ IF isOpen
            THEN /\ pc' = "flows"
                 /\ i' = 0
                 /\ UNCHANGED exitStatus
            ELSE /\ pc' = "done"
                 /\ exitStatus' = 1
                 /\ UNCHANGED i
    /\ UNCHANGED <<cfgVars, poolVars, j, radioVars, devVars, gnbPhy,
                   attachVars, trafficVars, simulated, outFile,
                   meanFlowThroughput, meanFlowDelay, zeroDivisions>>

(* ------------------- lines 705-753: per-flow statistics --------------- *)
\* (simTime - udpAppStartTime).GetSeconds()
flowDuration == Rat(simTime - udpAppStartTime, 1000)

\* Time::GetSeconds() of a sum kept in ns
GetSeconds(ns) == Rat(ns, 1000000000)

\* line 728: txPackets - rxPackets (uint32_t; every record has
\* rxPackets <= txPackets, so the subtraction never wraps)
LostPackets(f) == f.txPackets - f.rxPackets

\* line 729: (((txPackets - rxPackets) * 1.0) / txPackets) * 100
PacketLoss(f) == FMul(FDiv(Rat(LostPackets(f), 1), Rat(f.txPackets, 1)), Rat(100, 1))

\* lines 734/737: rxBytes * 8.0 / flowDuration / 1000 / 1000
Throughput(f) ==
    FDiv(FDiv(FDiv(Rat(f.rxBytes * 8, 1), flowDuration), Rat(1000, 1)), Rat(1000, 1))

\* lines 735/740: 1000 * delaySum.GetSeconds() / rxPackets
MeanDelay(f) == FDiv(FMul(Rat(1000, 1), GetSeconds(f.delaySum)), Rat(f.rxPackets, 1))

\* line 744: 1000 * jitterSum.GetSeconds() / rxPackets
MeanJitter(f) == FDiv(FMul(Rat(1000, 1), GetSeconds(f.jitterSum)), Rat(f.rxPackets, 1))

\* the receiver-side metrics computed for every record
HasRxAlways(f) == TRUE

\* line 731: the branch that computes the receiver-side metrics
HasRx(f) == f.rxPackets > 0

\* a division evaluated at `line` with this divisor
ZeroDivisionAt(line, divisor) == IF divisor = 0 THEN {line} ELSE {}

\* lines 735, 740 and 744: the divisions by rxPackets, evaluated only in the
\* branch of line 731
RxDivisions(f) ==
    IF HasRx(f)
    THEN ZeroDivisionAt(735, f.rxPackets) \cup ZeroDivisionAt(740, f.rxPackets)
           \cup ZeroDivisionAt(744, f.rxPackets)
    ELSE {}

\* the block written to outFile for one flow
FlowBlock(f) ==
    [txPackets |-> f.txPackets,
     rxBytes |-> f.rxBytes,
     lostPackets |-> LostPackets(f),
     packetLoss |-> PacketLoss(f),
     throughput |-> IF HasRx(f) THEN Throughput(f) ELSE Zero,
     meanDelay |-> IF HasRx(f) THEN MeanDelay(f) ELSE Zero,
     meanJitter |-> IF HasRx(f) THEN MeanJitter(f) ELSE Zero,
     rxPackets |-> f.rxPackets]

PrintFlow ==
    /\ pc = "flows"
    /\ IF i < Len(stats)
       THEN LET f == stats[i + 1] IN
            /\ outFile' = Append(outFile, FlowBlock(f))
            /\ averageFlowThroughput' =
                 IF HasRx(f) THEN FAdd(averageFlowThroughput, Throughput(f))
                 ELSE averageFlowThroughput
            /\ averageFlowDelay' =
                 IF HasRx(f) THEN FAdd(averageFlowDelay, MeanDelay(f))
                 ELSE averageFlowDelay
            /\ zeroDivisions' = zeroDivisions \cup ZeroDivisionAt(729, f.txPackets)
                                               \cup RxDivisions(f)
            /\ i' = i + 1
            /\ pc' = pc
       ELSE /\ pc' = "means"
            /\ UNCHANGED <<outFile, averageFlowThroughput, averageFlowDelay, i,
                           zeroDivisions>>
    /\ UNCHANGED <<cfgVars, poolVars, j, radioVars, devVars, gnbPhy,
                   attachVars, trafficVars, simulated, stats, outFileOpen,
                   meanFlowThroughput, meanFlowDelay, exitStatus>>

(* ------------------- lines 755-770: the two aggregates ---------------- *)
\* the sum divided by the number of flows that received packets
MeanOverReceiving(sum, flowCount) ==
    FDiv(sum, Rat(Cardinality({n \in 1..Len(stats) : stats[n].rxPackets > 0}), 1))

\* averageFlow... / stats.size()
MeanOver(sum, flowCount) == FDiv(sum, Rat(flowCount, 1))

ComputeMeans ==
    /\ pc = "means"
    /\ meanFlowThroughput' = MeanOver(averageFlowThroughput, Len(stats))
    /\ meanFlowDelay' = MeanOver(averageFlowDelay, Len(stats))
    /\ zeroDivisions' = zeroDivisions \cup ZeroDivisionAt(755, Len(stats))
                                       \cup ZeroDivisionAt(756, Len(stats))
    /\ pc' = "return"
    /\ UNCHANGED <<cfgVars, poolVars, i, j, radioVars, devVars, gnbPhy,
                   attachVars, trafficVars, simulated, stats, outFileOpen,
                   outFile, averageFlowThroughput, averageFlowDelay, exitStatus>>

(* ------------------- lines 772-809: exit status ----------------------- *)
\* v >= ref - 0.0001 * ref && v <= ref + 0.0001 * ref, for the reference
\* ref = refMicro / 10^6 and v = n / d >= 0:
\*   refMicro * 9999 * d <= n * 10^10 <= refMicro * 10001 * d
\* Every comparison with NaN or inf on the left is false.
WithinTolerance(v, refMicro) ==
    /\ v.k = "num"
    /\ LET scaled == BigMul(Big(v.n), BigMul(Big(100000), Big(100000)))
           ref == BigMul(Big(refMicro), Big(v.d))
       IN  /\ BigLeq(BigMul(ref, Big(9999)), scaled)
           /\ BigLeq(scaled, BigMul(ref, Big(10001)))

\* the second baseline applied whatever argc is
ReturnValueAnyArgc ==
    IF argc = 0
    THEN IF /\ WithinTolerance(meanFlowThroughput, 56258560)
            /\ WithinTolerance(meanFlowDelay, 553292)
         THEN 0 ELSE 1
    ELSE IF numUePerGnb = BaselineNumUePerGnb
    THEN IF /\ WithinTolerance(meanFlowThroughput, 47858536)
            /\ WithinTolerance(meanFlowDelay, 10504189)
         THEN 0 ELSE 1
    ELSE 0

ReturnValue ==
    IF argc = 0
    THEN IF /\ WithinTolerance(meanFlowThroughput, 56258560)
            /\ WithinTolerance(meanFlowDelay, 553292)
         THEN 0 ELSE 1
    ELSE IF argc = 1 /\ numUePerGnb = BaselineNumUePerGnb
    THEN IF /\ WithinTolerance(meanFlowThroughput, 47858536)
            /\ WithinTolerance(meanFlowDelay, 10504189)
         THEN 0 ELSE 1
    ELSE 0

Return ==
    /\ pc = "return"
    /\ exitStatus' = ReturnValue
    /\ pc' = "done"
    /\ UNCHANGED <<cfgVars, poolVars, i, j, radioVars, devVars, gnbPhy,
                   attachVars, trafficVars, simulated, stats, outFileOpen,
                   outFile, averageFlowThroughput, averageFlowDelay,
                   meanFlowThroughput, meanFlowDelay, zeroDivisions>>


Next ==
    \/ CheckParams
    \/ CreateScenario
    \/ DistributeUe
    \/ CheckPools
    \/ InitializeBands
    \/ ConfigureBwpRouting
    \/ InstallDevices
    \/ ConfigureGnbPhy
    \/ SetupInternet
    \/ AttachSlot
    \/ FinalCheck
    \/ InstallBrowsingClient
    \/ InstallVoiceClient
    \/ SimulatorRun
    \/ OpenOutFile
    \/ PrintFlow
    \/ ComputeMeans
    \/ Return

Spec == Init /\ [][Next]_vars

(* ====================================================================== *)
(*                               Claims                                   *)
(* ====================================================================== *)
\* the class partition of lines 185-202 has run to its end
PartitionDone == pc \notin {"params", "abortedParams", "scenario", "distribute"}

\* the pool-size checks of lines 205-206 have passed
AfterPoolCheck == PartitionDone /\ pc \notin {"poolcheck", "abortedPools"}

\* the loop of lines 388-404 has run to its end
TxPowerLoopDone ==
    AfterPoolCheck /\ pc \notin {"bands", "routing", "install", "txpower"}

\* no BWP routing, device installation, PHY setting, attachment, bearer
\* activation, client, simulation run or report step has been executed
NoAllocationStep ==
    /\ gnbBwpManager = NoRoute
    /\ ueBwpManager = NoRoute
    /\ gnbNetDev = <<>>
    /\ ueBrowsingWebNetDev = <<>>
    /\ uePhoneCallNetDev = <<>>
    /\ gnbPhy = <<>>
    /\ attached = <<>>
    /\ bearers = <<>>
    /\ clientApps = <<>>
    /\ ~simulated
    /\ ~outFileOpen
    /\ outFile = <<>>
    /\ exitStatus = -1

\* the endpoints of a pool that were passed to AttachToGnb
AttachedOf(pool) ==
    {e \in Range(pool) : \E n \in 1..Len(attached) : attached[n].ue = e}

C3_ParityPartition ==
    LET N == Len(userTerminals) IN
    (PartitionDone /\ N >= 5) =>
        /\ uePhoneCallContainer = [m \in 1..((N + 1) \div 2) |-> userTerminals[2 * m - 1]]
        /\ ueBrowsingWebContainer = [m \in 1..(N \div 2) |-> userTerminals[2 * m]]
        /\ Len(uePhoneCallContainer) + Len(ueBrowsingWebContainer) = N
        /\ Range(uePhoneCallContainer) \cap Range(ueBrowsingWebContainer) = {}
        /\ Range(uePhoneCallContainer) \cup Range(ueBrowsingWebContainer)
             = Range(userTerminals)

\* C3 witness: nine endpoints partitioned into five Voice and four Browsing
C3_Witness ==
    /\ pc = "poolcheck"
    /\ Len(userTerminals) = 9
    /\ uePhoneCallContainer = <<0, 2, 4, 6, 8>>
    /\ ueBrowsingWebContainer = <<1, 3, 5, 7>>

\* C4: after partitioning the run aborts exactly when the Voice pool has
\* fewer than 2 or the Browsing pool fewer than 3 endpoints, and an aborted
\* run executes no later step.
C4_PoolCheckAborts ==
    /\ pc = "abortedPools" =>
         /\ Len(uePhoneCallContainer) < 2 \/ Len(ueBrowsingWebContainer) < 3
         /\ allBwps = <<>>
         /\ NoAllocationStep
         /\ ~ENABLED Next
    /\ AfterPoolCheck =>
         /\ Len(uePhoneCallContainer) >= 2
         /\ Len(ueBrowsingWebContainer) >= 3

\* C4 witness: five endpoints give a Browsing pool of 2 and the run aborts
C4_Witness ==
    /\ pc = "abortedPools"
    /\ Len(userTerminals) = 5
    /\ Len(ueBrowsingWebContainer) = 2

\* the allowed carrier range of lines 124-125: 2e9 Hz to 100e9 Hz
InRange(f) == f >= 20 /\ f <= 1000

\* C5: a scenario passes the startup validation only if both carrier
\* frequencies are inside the allowed range and differ.
C5_FrequenciesValidated ==
    pc \notin {"params", "abortedParams"} =>
        /\ InRange(centralFrequencyBand1)
        /\ InRange(centralFrequencyBand2)
        /\ centralFrequencyBand1 # centralFrequencyBand2

\* one of the configuration-validity conditions holds
ConfigCheckFails ==
    \/ centralFrequencyBand1 = centralFrequencyBand2
    \/ ~InRange(centralFrequencyBand1)
    \/ ~InRange(centralFrequencyBand2)
    \/ numTotalUe < 5
    \/ numGnb < 2
    \/ /\ PartitionDone
       /\ Len(uePhoneCallContainer) < 2 \/ Len(ueBrowsingWebContainer) < 3

\* C6: when a configuration-validity condition holds, no resource
\* allocation, simulation run or report step is ever executed.
C6_InvalidConfigAllocatesNothing == ConfigCheckFails => NoAllocationStep

\* the power of partition b computed from that partition's own share
OwnSharePower(b) ==
    Log10x10(Scale(FDiv(Rat(allBwps[b + 1].bandwidth, 1),
                        Rat(bandwidthBand1 + bandwidthBand2, 1)),
                   Pow10Tenths(totalTxPower)))

\* C7: every transmit power written to a PHY is the one computed from that
\* partition's own bandwidth share, (b_k / (b1 + b2)) * 10^(P/10); so the
\* linear powers of the two partitions are in the ratio b1 : b2 and add up
\* to the budget.
C7_PowerFromOwnShare ==
    \A g \in DOMAIN gnbPhy : \A b \in DOMAIN gnbPhy[g] :
        (~ConfigCheckFails /\ gnbPhy[g][b].TxPower.k = "set") =>
            /\ gnbPhy[g][b].TxPower = OwnSharePower(b)
            /\ (gnbPhy[g][0].TxPower.k = "set" /\ gnbPhy[g][1].TxPower.k = "set") =>
                 /\ FMul(gnbPhy[g][0].TxPower.coef, Rat(bandwidthBand2, 1))
                      = FMul(gnbPhy[g][1].TxPower.coef, Rat(bandwidthBand1, 1))
                 /\ FAdd(gnbPhy[g][0].TxPower.coef, gnbPhy[g][1].TxPower.coef)
                      = Rat(1, 1)

\* C8: after the per-base-station loop every base station has the
\* transmit power of each partition set, to the same value as every other
\* base station.
C8_UniformPower ==
    (~ConfigCheckFails /\ TxPowerLoopDone) =>
        \A g \in DOMAIN gnbPhy : \A b \in DOMAIN gnbPhy[g] :
            /\ gnbPhy[g][b].TxPower.k = "set"
            /\ \A h \in DOMAIN gnbPhy : gnbPhy[h][b].TxPower = gnbPhy[g][b].TxPower

\* C9: for a flow record with txPackets = 0 the division lostPackets /
\* txPackets of line 729 is not evaluated and the reported packet loss is
\* not the result of a division by zero.
C9_ZeroTxHandled ==
    \A n \in 1..Len(outFile) :
        outFile[n].txPackets = 0 =>
            /\ 729 \notin zeroDivisions
            /\ outFile[n].packetLoss.k \notin {"nan", "inf"}

\* C10: with zero flow records the two aggregates are produced without
\* evaluating a division by the flow count (lines 755-756).
C10_EmptyStatsHandled ==
    (pc \in {"return", "done"} /\ outFileOpen /\ Len(stats) = 0) =>
        /\ 755 \notin zeroDivisions
        /\ 756 \notin zeroDivisions

\* C11: a flow record with rxPackets = 0 is reported with throughput, mean
\* delay and mean jitter 0, no division by rxPackets (lines 735, 740, 744)
\* is evaluated with a zero divisor, and processing the record leaves the
\* throughput and delay sums as they were.
C11_ZeroRxReportsZeros ==
    /\ [](/\ \A n \in 1..Len(outFile) :
              outFile[n].rxPackets = 0 =>
                  /\ outFile[n].throughput = Zero
                  /\ outFile[n].meanDelay = Zero
                  /\ outFile[n].meanJitter = Zero
          /\ zeroDivisions \cap {735, 740, 744} = {})
    /\ [][(pc = "flows" /\ i < Len(stats) /\ stats[i + 1].rxPackets = 0) =>
            /\ averageFlowThroughput' = averageFlowThroughput
            /\ averageFlowDelay' = averageFlowDelay]_vars

\* C11 witness: after a flow with received packets, a flow with one packet
\* sent and none received has been reported
C11_Witness ==
    /\ Len(outFile) = 2
    /\ outFile[1].rxPackets > 0
    /\ outFile[2].rxPackets = 0
    /\ outFile[2].txPackets = 1
    /\ averageFlowThroughput # Zero

\* the reference values (throughput, delay; in millionths) of the regression
\* baseline that applies to this run, <<>> when none applies (lines 772, 789)
BaselineOfRun ==
    IF argc = 0 THEN <<56258560, 553292>>
    ELSE IF argc = 1 /\ numUePerGnb = 9 THEN <<47858536, 10504189>>
    ELSE <<>>

\* both aggregates lie within their reference value +/- 0.01%
AggregatesInBand ==
    /\ WithinTolerance(meanFlowThroughput, BaselineOfRun[1])
    /\ WithinTolerance(meanFlowDelay, BaselineOfRun[2])

\* C12: when main returns, the exit status is non-zero exactly when the
\* report file could not be opened, or a regression baseline applies and an
\* aggregate is outside its tolerance band; otherwise it is 0.
C12_ExitStatus ==
    pc = "done" =>
        /\ exitStatus \in {0, 1}
        /\ exitStatus # 0 <=>
              \/ ~outFileOpen
              \/ (BaselineOfRun # <<>> /\ ~AggregatesInBand)

\* C12 witness: the second baseline applies, both aggregates are within its
\* band and the run returns 0
C12_Witness ==
    /\ pc = "done"
    /\ outFileOpen
    /\ argc = 1
    /\ numUePerGnb = 9
    /\ Len(stats) > 0
    /\ exitStatus = 0

\* the attachment loop of lines 488-521 has run to its end
AttachLoopDone ==
    pc \in {"finalcheck", "browsingClients", "voiceClients", "run", "report",
            "flows", "means", "return", "done"}

\* the number of slots of each parity over all base stations
VoiceSlots == numGnb * ((numUePerGnb + 1) \div 2)
BrowsingSlots == numGnb * (numUePerGnb \div 2)

Min(a, b) == IF a < b THEN a ELSE b

\* the members of a pool passed to AttachToGnb, in the order of the calls
AttachOrder(pool) ==
    LET InPool(a) == a.ue \in Range(pool)
        calls == SelectSeq(attached, InPool)
    IN  [n \in 1..Len(calls) |-> calls[n].ue]

\* the attached members of a pool are exactly its first k members, in order
FirstAttached(pool, k) ==
    /\ Len(AttachOrder(pool)) = k
    /\ \A n \in 1..k : n <= Len(pool) /\ AttachOrder(pool)[n] = pool[n]

SlotQuotaExhausted ==
    IF j % 2 = 0 THEN callIndex >= totalUesCall ELSE browseIndex >= totalUesBrowse

\* the slot after (i, j) in (base station, slot) order
SlotAfter == IF j + 1 < numUePerGnb THEN <<i, j + 1>> ELSE <<i + 1, 0>>

\* C14: a slot whose class quota is exhausted is skipped: nothing is
\* attached, the run does not end there, and the loop goes on with the next
\* slot in (base station, slot) order; the loop starts at slot (0, 0), ends
\* after slot (numGnb - 1, numUePerGnb - 1), and the steps after it are the
\* simulation run and the report.
C14_SkipContinues ==
    /\ [][(pc = "attach" /\ i < numGnb /\ SlotQuotaExhausted) =>
            /\ pc' = "attach"
            /\ <<i', j'>> = SlotAfter
            /\ attached' = attached
            /\ Len(warnLog') = Len(warnLog) + 1]_vars
    /\ [][(pc = "internet" => (pc' = "attach" /\ i' = 0 /\ j' = 0))
          /\ (pc = "attach" /\ i = numGnb => (pc' = "finalcheck" /\ j = 0))
          /\ (pc = "run" => simulated')
          /\ (pc = "report" => pc' \in {"flows", "done"})]_vars

\* rxBytes * 8 / D / 1e6 with D = 0.09 s (simTime - udpAppStartTime)
ThroughputMbps(f) == RatMul(f.rxBytes * 8, 1000000, 100, 9)

\* delaySum (ns) per received packet, in ms; 0 for a flow that received none
MeanDelayMs(f) ==
    IF f.rxPackets = 0 THEN Zero ELSE Rat(f.delaySum, f.rxPackets * 1000000)

RECURSIVE SumThroughput(_)
SumThroughput(records) ==
    IF records = <<>> THEN Zero
    ELSE FAdd(ThroughputMbps(Head(records)), SumThroughput(Tail(records)))

RECURSIVE SumDelay(_)
SumDelay(records) ==
    IF records = <<>> THEN Zero
    ELSE FAdd(MeanDelayMs(Head(records)), SumDelay(Tail(records)))

\* C15: with at least one flow record, the mean flow throughput is the sum
\* of rxBytes * 8 / D / 1e6 over all records divided by the number of all
\* records, and the mean flow delay the sum of the per-flow mean delays
\* divided by the same count; a record with rxPackets = 0 counts in the
\* divisor and adds 0.
C15_MeansOverAllFlows ==
    (pc \in {"return", "done"} /\ outFileOpen /\ Len(stats) > 0) =>
        /\ meanFlowThroughput = FDiv(SumThroughput(stats), Rat(Len(stats), 1))
        /\ meanFlowDelay = FDiv(SumDelay(stats), Rat(Len(stats), 1))

\* C15 witness: the means of two flows, one of which received nothing
C15_Witness ==
    /\ pc = "done"
    /\ outFileOpen
    /\ Len(stats) = 2
    /\ stats[1].rxPackets = 0
    /\ stats[2].rxPackets > 0
    /\ meanFlowThroughput # Zero
    /\ meanFlowDelay # Zero

\* the routing of lines 329-359 has been configured
RoutingDone == AfterPoolCheck /\ pc \notin {"bands", "routing"}

\* bandwidth part idx exists and was built from this carrier and bandwidth
BuiltFrom(idx, frequency, bandwidth) ==
    /\ idx \in 0..(Len(allBwps) - 1)
    /\ allBwps[idx + 1] = [centralFrequency |-> frequency, bandwidth |-> bandwidth]

\* every gNB PHY of bandwidth part idx has this numerology
NumerologyOf(idx, numerology) ==
    \A g \in DOMAIN gnbPhy : gnbPhy[g][idx].Numerology = numerology

\* C16: once routing is configured, the gNB and UE managers route the Voice
\* bearer to the bandwidth part built from the voice-call band (band 1, with
\* numerologyBwp1) and the Browsing bearer to the one built from the
\* web-browsing band (band 2, with numerologyBwp2).
C16_RoutedToOwnPartition ==
    RoutingDone =>
        \A m \in {gnbBwpManager, ueBwpManager} :
            /\ BuiltFrom(m[Voice], centralFrequencyBand1, bandwidthBand1)
            /\ BuiltFrom(m[Browsing], centralFrequencyBand2, bandwidthBand2)
            /\ TxPowerLoopDone =>
                 /\ NumerologyOf(m[Voice], numerologyBwp1)
                 /\ NumerologyOf(m[Browsing], numerologyBwp2)

\* C17: whenever the attachment loop is about to process a slot, the index
\* at which it reads the slot's class pool (on the attach path and in the
\* warning of the skip path) is less than the size of that pool.
C17_PoolIndexInRange ==
    (pc = "attach" /\ i < numGnb) =>
        IF j % 2 = 0 THEN callIndex < Len(uePhoneCallNetDev)
        ELSE browseIndex < Len(ueBrowsingWebNetDev)

\* C18: with at least 2 base stations (and distinct carriers, so that only
\* the endpoint counts decide), a scenario of N endpoints passes the
\* total-count precondition exactly when N >= 5 and both pool checks exactly
\* when N >= 6; N = 5 aborts at the Browsing pool check with 3 Voice and 2
\* Browsing endpoints.
C18_PassesIffSixEndpoints ==
    LET N == numGnb * numUePerGnb IN
    (numGnb >= 2 /\ centralFrequencyBand1 # centralFrequencyBand2) =>
        /\ pc = "abortedParams" => N < 5
        /\ N < 5 => pc \in {"params", "abortedParams"}
        /\ pc = "abortedPools" =>
             /\ N = 5
             /\ Len(uePhoneCallContainer) = 3
             /\ Len(ueBrowsingWebContainer) = 2
        /\ N = 5 => pc \in {"params", "scenario", "distribute", "poolcheck",
                             "abortedPools"}
        /\ AfterPoolCheck => N >= 6
        /\ N >= 6 => pc \notin {"abortedParams", "abortedPools"}

\* C18 witness: six endpoints on two base stations have passed both pool
\* checks
C18_Witness ==
    /\ pc = "bands"
    /\ numGnb = 2
    /\ numUePerGnb = 3
    /\ Len(uePhoneCallContainer) = 3
    /\ Len(ueBrowsingWebContainer) = 3

\* the client and bearer loops of lines 599-645 have run to their end
ClientsDone == pc \in {"run", "report", "flows", "means", "return", "done"}

\* the endpoints with an activated dedicated bearer, with a client sending
\* to their address, and passed to AttachToGnb
WithBearer == {bearers[n].ue : n \in 1..Len(bearers)}
WithClient == {clientApps[n].remoteAddress : n \in 1..Len(clientApps)}
Attached == {attached[n].ue : n \in 1..Len(attached)}

====
